---------------------------- MODULE Spec2Model ----------------------------
(***************************************************************************)
(* A model of the numerical core of the canvas path library                *)
(* (src/path_util.go, src/util.go): the quadratic root finder, the         *)
(* Gauss-Legendre rule, the bisection search, the cubic Bezier helpers and *)
(* the flattener / stroker of cubic Bezier segments.                       *)
(*                                                                         *)
(* Go's float64 is modelled as binary floating point with a significand of *)
(* SigBits bits, rounded to nearest (ties to even) after every operation,  *)
(* with NaN, +Inf and -Inf and without exponent limits. Zero is unsigned.  *)
(* A number is a record [k, m, e]: k = "fin" stands for m * 2^e (m odd or  *)
(* m = e = 0), k = "nan", "inf", "ninf" for the special values.            *)
(*                                                                         *)
(* A local value of the source that is used more than once is a parameter  *)
(* of a helper operator (named after the function and the value), so that  *)
(* every definition is evaluated, and counted by TLC's coverage, once.     *)
(***************************************************************************)
EXTENDS Integers, Sequences, FiniteSets, TLC

VARIABLES
    pc,      \* position of the modelled call
    args,    \* the arguments of the modelled call
    ret,     \* what the call returned
    path,    \* the Path p: the positions of its LineTo commands
             \* (cubicBezierLength: the pieces the curve is cut into)
    par,     \* for each command of path, the parameter of the segment it stands for
    cur,     \* flattenSmoothCubicBezier: the curve left, t, and where to return
             \* (bisectionMethod: xmin, xmax and n)
    loc      \* strokeCubicBezier: t1, t2 and their windows
             \* (bisectionMethod: toleranceX and toleranceY)

vars == <<pc, args, ret, path, par, cur, loc>>

---------------------------------------------------------------------------
(* float64 arithmetic                                                      *)

SigBits == 11

NaN == [k |-> "nan", m |-> 0, e |-> 0]
Inf == [k |-> "inf", m |-> 0, e |-> 0]
NegInf == [k |-> "ninf", m |-> 0, e |-> 0]
Zero == [k |-> "fin", m |-> 0, e |-> 0]

AbsInt(n) == IF n < 0 THEN -n ELSE n
SgnInt(n) == IF n < 0 THEN -1 ELSE IF n = 0 THEN 0 ELSE 1
MinInt(a, b) == IF a < b THEN a ELSE b

RECURSIVE Bits(_)
Bits(a) == IF a = 0 THEN 0 ELSE 1 + Bits(a \div 2)

RECURSIVE StripZeros(_, _)
StripZeros(a, e) == IF a % 2 = 0 THEN StripZeros(a \div 2, e + 1) ELSE <<a, e>>

\* quotient q, remainder r of a division by 2 * half: round to nearest, ties to even
RoundUp(q, r, half, e) ==
    StripZeros(IF r > half \/ (r = half /\ q % 2 = 1) THEN q + 1 ELSE q, e)

RoundShift(a, e, sh) == RoundUp(a \div (2 ^ sh), a % (2 ^ sh), 2 ^ (sh - 1), e + sh)

RoundTo(a, e, n) ==
    IF n <= SigBits THEN StripZeros(a, e) ELSE RoundShift(a, e, n - SigBits)

\* a * 2^e (a > 0) rounded to SigBits significant bits
RoundNE(a, e) == RoundTo(a, e, Bits(a))

Signed(s, r) == [k |-> "fin", m |-> s * r[1], e |-> r[2]]

Fin(m, e) == IF m = 0 THEN Zero ELSE Signed(SgnInt(m), RoundNE(AbsInt(m), e))

FromInt(n) == Fin(n, 0)
One == FromInt(1)

IsNaN(x) == x.k = "nan"
IsInf(x) == x.k \in {"inf", "ninf"}

\* -1, 0, 1 for a value that is not NaN
Sign(x) == IF x.k = "inf" THEN 1 ELSE IF x.k = "ninf" THEN -1 ELSE SgnInt(x.m)

FNeg(x) ==
    IF x.k = "nan" THEN NaN
    ELSE IF x.k = "inf" THEN NegInf
    ELSE IF x.k = "ninf" THEN Inf
    ELSE [k |-> "fin", m |-> -x.m, e |-> x.e]

FAbs(x) == IF IsNaN(x) THEN NaN ELSE IF Sign(x) < 0 THEN FNeg(x) ELSE x

AddAligned(x, y, lo) ==
    IF Bits(AbsInt(x.m)) + (x.e - lo) > 29 THEN x
    ELSE IF Bits(AbsInt(y.m)) + (y.e - lo) > 29 THEN y
    ELSE Fin(x.m * (2 ^ (x.e - lo)) + y.m * (2 ^ (y.e - lo)), lo)

\* the sum of two finite values; an operand below half a unit in the last
\* place of the other does not change it
AddFin(x, y) ==
    IF x.m = 0 THEN y
    ELSE IF y.m = 0 THEN x
    ELSE AddAligned(x, y, MinInt(x.e, y.e))

FAdd(x, y) ==
    IF IsNaN(x) \/ IsNaN(y) THEN NaN
    ELSE IF IsInf(x) THEN (IF IsInf(y) /\ x.k # y.k THEN NaN ELSE x)
    ELSE IF IsInf(y) THEN y
    ELSE AddFin(x, y)

FSub(x, y) == FAdd(x, FNeg(y))

FMul(x, y) ==
    IF IsNaN(x) \/ IsNaN(y) THEN NaN
    ELSE IF IsInf(x) \/ IsInf(y)
         THEN (IF Sign(x) * Sign(y) = 0 THEN NaN
               ELSE IF Sign(x) * Sign(y) > 0 THEN Inf ELSE NegInf)
    ELSE Fin(x.m * y.m, x.e + y.e)

\* n / d with sign s, scaled by 2^(e+1): the quotient and a sticky bit for
\* the remainder, then rounded
DivQuot(n, d, s, e) == Fin(s * (2 * (n \div d) + (IF n % d = 0 THEN 0 ELSE 1)), e)

DivShift(x, y, sh) ==
    DivQuot(AbsInt(x.m) * (2 ^ sh), AbsInt(y.m), SgnInt(x.m) * SgnInt(y.m),
            x.e - sh - y.e - 1)

\* the quotient of two finite non-zero values, correctly rounded
DivFin(x, y) == DivShift(x, y, 2 * SigBits + 2 - Bits(AbsInt(x.m)))

FDiv(x, y) ==
    IF IsNaN(x) \/ IsNaN(y) THEN NaN
    ELSE IF IsInf(x)
         THEN (IF IsInf(y) THEN NaN
               ELSE IF Sign(x) * Sign(y) < 0 THEN NegInf ELSE Inf)
    ELSE IF IsInf(y) THEN Zero
    ELSE IF y.m = 0
         THEN (IF x.m = 0 THEN NaN ELSE IF x.m > 0 THEN Inf ELSE NegInf)
    ELSE IF x.m = 0 THEN Zero
    ELSE DivFin(x, y)

SqrtStep(s, n) == IF (s + 1) * (s + 1) <= n THEN s + 1 ELSE s

RECURSIVE ISqrt(_)
ISqrt(n) == IF n < 2 THEN n ELSE SqrtStep(2 * ISqrt(n \div 4), n)

SqrtSticky(s, n, e) == Fin(2 * s + (IF s * s = n THEN 0 ELSE 1), e)

SqrtOf(n, e) == SqrtSticky(ISqrt(n), n, (e \div 2) - 1)

SqrtShift(x, s0) ==
    IF (x.e - s0) % 2 = 0
    THEN SqrtOf(x.m * (2 ^ s0), x.e - s0)
    ELSE SqrtOf(x.m * (2 ^ (s0 + 1)), x.e - s0 - 1)

\* math.Sqrt: correctly rounded
FSqrt(x) ==
    IF IsNaN(x) \/ Sign(x) < 0 THEN NaN
    ELSE IF x.k = "inf" THEN Inf
    ELSE IF x.m = 0 THEN Zero
    ELSE SqrtShift(x, 2 * SigBits + 2 - Bits(x.m))

\* math.Hypot
FHypot(x, y) ==
    IF IsInf(x) \/ IsInf(y) THEN Inf
    ELSE IF IsNaN(x) \/ IsNaN(y) THEN NaN
    ELSE FSqrt(FAdd(FMul(x, x), FMul(y, y)))

CbrtStep(s, n) == IF (s + 1) * (s + 1) * (s + 1) <= n THEN s + 1 ELSE s

RECURSIVE ICbrt(_)
ICbrt(n) ==
    IF n < 8 THEN (IF n >= 1 THEN 1 ELSE 0) ELSE CbrtStep(2 * ICbrt(n \div 8), n)

CbrtSticky(s, n, e) == Fin(2 * s + (IF s * s * s = n THEN 0 ELSE 1), e)

CbrtOf(n, e) == CbrtSticky(ICbrt(n), n, (e \div 3) - 1)

CbrtShift(x, sh) == CbrtOf(x.m * (2 ^ sh), x.e - sh)

CbrtAlign(x, s0) == CbrtShift(x, s0 + ((x.e - s0) % 3))

\* math.Cbrt of a value >= 0, within one unit in the last place
FCbrt(x) ==
    IF IsNaN(x) \/ Sign(x) < 0 THEN NaN
    ELSE IF x.k = "inf" THEN Inf
    ELSE IF x.m = 0 THEN Zero
    ELSE CbrtAlign(x, 27 - Bits(x.m))

\* comparisons: every comparison with NaN is false
FEq(x, y) == ~IsNaN(x) /\ ~IsNaN(y) /\ x = y
FLt(x, y) == ~IsNaN(x) /\ ~IsNaN(y) /\ x # y /\ Sign(FSub(x, y)) < 0
FLe(x, y) == FLt(x, y) \/ FEq(x, y)
FGt(x, y) == FLt(y, x)
FGe(x, y) == FLe(y, x)

---------------------------------------------------------------------------
(* RootFinder                                                              *)

\* the range filter left out: every root is reported
clipNothing(x) == x

\* if 1.0 <= x || x < 0.0 { x = math.NaN() }
clipUnit(x) == IF FLe(One, x) \/ FLt(x, Zero) THEN NaN ELSE x

\* lines 58-67: the two roots sorted, then each clipped
quadSorted(x1, x2) ==
    IF FGt(x1, x2) THEN <<clipUnit(x2), clipUnit(x1)>>
    ELSE <<clipUnit(x1), clipUnit(x2)>>

\* lines 56-57: x1, and x2 from it
quadRoots(a, c, x1) == quadSorted(x1, FDiv(c, FMul(a, x1)))

\* lines 36-57: the equation with a # 0 and c # 0
quadGeneral(a, b, c, discriminant) ==
    IF FLt(discriminant, Zero) THEN <<NaN, NaN>>
    ELSE IF FEq(discriminant, Zero)
    THEN <<clipUnit(FDiv(FNeg(b), FMul(FromInt(2), a))), NaN>>
    ELSE quadRoots(a, c,
             FDiv(FNeg(FAdd(b, IF FLt(b, Zero) THEN FNeg(FSqrt(discriminant))
                                ELSE FSqrt(discriminant))),
                  FMul(FromInt(2), a)))

solveQuadraticFormula(a, b, c) ==
    IF FEq(a, Zero)
    THEN IF FEq(b, Zero)
         THEN IF FEq(c, Zero) THEN <<Zero, NaN>> ELSE <<NaN, NaN>>
         ELSE <<clipUnit(FDiv(FNeg(c), b)), NaN>>
    ELSE IF FEq(c, Zero)
    THEN <<Zero, clipUnit(FDiv(FNeg(b), a))>>
    ELSE quadGeneral(a, b, c, FSub(FMul(b, b), FMul(FMul(FromInt(4), a), c)))

---------------------------------------------------------------------------
(* Point                                                                   *)

Pt(x, y) == [X |-> x, Y |-> y]
Origin == Pt(Zero, Zero)

Add(p, q) == Pt(FAdd(p.X, q.X), FAdd(p.Y, q.Y))
Sub(p, q) == Pt(FSub(p.X, q.X), FSub(p.Y, q.Y))
Mul(p, f) == Pt(FMul(p.X, f), FMul(p.Y, f))
Length(p) == FHypot(p.X, p.Y)
Rot90CW(p) == Pt(p.Y, FNeg(p.X))

NormBy(p, d, len) ==
    IF FEq(len, Zero) THEN Origin
    ELSE Pt(FMul(FDiv(p.X, len), d), FMul(FDiv(p.Y, len), d))

\* scale to length d; the zero vector maps to zero
Norm(p, d) == NormBy(p, d, Length(p))

\* self + (other - self) * t
Interpolate(p, q, t) == Add(p, Mul(Sub(q, p), t))

\* n.X == 0 && n.Y == 0
IsZeroPt(n) == FEq(n.X, Zero) /\ FEq(n.Y, Zero)

---------------------------------------------------------------------------
(* cubic Bezier geometry                                                   *)

\* a call either returns a value or panics
Ok(v) == [ok |-> TRUE, v |-> v]
Panic == [ok |-> FALSE, v |-> <<>>]

Cubic(p0, p1, p2, p3) == [p0 |-> p0, p1 |-> p1, p2 |-> p2, p3 |-> p3]

cubicBezierPosAt(p0, p1, p2, p3, t, tt, ttt) ==
    Add(Add(Add(Mul(p0, FSub(FAdd(FSub(One, FMul(FromInt(3), t)),
                                   FMul(FromInt(3), tt)), ttt)),
                Mul(p1, FAdd(FSub(FMul(FromInt(3), t), FMul(FromInt(6), tt)),
                             FMul(FromInt(3), ttt)))),
            Mul(p2, FSub(FMul(FromInt(3), tt), FMul(FromInt(3), ttt)))),
        Mul(p3, ttt))

cubicBezierPos(p0, p1, p2, p3, t) ==
    cubicBezierPosAt(p0, p1, p2, p3, t, FMul(t, t), FMul(FMul(t, t), t))

cubicBezierDerivAt(p0, p1, p2, p3, t, tt) ==
    Add(Add(Add(Mul(p0, FSub(FAdd(FromInt(-3), FMul(FromInt(6), t)),
                             FMul(FromInt(3), tt))),
                Mul(p1, FAdd(FSub(FromInt(3), FMul(FromInt(12), t)),
                             FMul(FromInt(9), tt)))),
            Mul(p2, FSub(FMul(FromInt(6), t), FMul(FromInt(9), tt)))),
        Mul(p3, FMul(FMul(FromInt(3), t), t)))

cubicBezierDeriv(p0, p1, p2, p3, t) ==
    cubicBezierDerivAt(p0, p1, p2, p3, t, FMul(t, t))

\* the first of the three differences that is not the zero vector
FirstNonZero(n1, n2, n3) ==
    IF ~IsZeroPt(n1) THEN n1 ELSE IF ~IsZeroPt(n2) THEN n2 ELSE n3

\* lines 506-509, 518-521
normalOf(n, d) == IF IsZeroPt(n) THEN Ok(Origin) ELSE Ok(Norm(Rot90CW(n), d))

cubicBezierNormal(p0, p1, p2, p3, t, d) ==
    IF FEq(t, Zero)
    THEN normalOf(FirstNonZero(Sub(p1, p0), Sub(p2, p0), Sub(p3, p0)), d)
    ELSE IF FEq(t, One)
    THEN normalOf(FirstNonZero(Sub(p3, p2), Sub(p3, p1), Sub(p3, p0)), d)
    ELSE Panic

splitAtR0(p0, p3, q1, q2, r1, r2, r0) ==
    <<Cubic(p0, q1, q2, r0), Cubic(r0, r1, r2, p3)>>

splitAtQ2(p0, p3, q1, r2, q2, r1, t) ==
    splitAtR0(p0, p3, q1, q2, r1, r2, Interpolate(q2, r1, t))

splitAtPm(p0, p3, pm, q1, r2, t) ==
    splitAtQ2(p0, p3, q1, r2, Interpolate(q1, pm, t), Interpolate(pm, r2, t), t)

\* the two halves <<q, r>> of the curve split at t
splitCubicBezier(p0, p1, p2, p3, t) ==
    splitAtPm(p0, p3, Interpolate(p1, p2, t), Interpolate(p0, p1, t),
              Interpolate(p2, p3, t), t)

\* line 573: the test for a Bezier without surface
noSurface(p0, p1, p2, p3) ==
    /\ FEq(p0.X, p3.X)
    /\ FEq(p0.Y, p3.X)
    /\ \/ FEq(p0.X, p1.X) /\ FEq(p0.Y, p1.Y)
       \/ FEq(p0.X, p2.X) /\ FEq(p0.Y, p2.Y)

\* pos = pos.Add(n); p.LineTo(pos.X, pos.Y)
lineWithNormal(p, pos, n) == IF n.ok THEN Ok(Append(p, Add(pos, n.v))) ELSE Panic

\* the path p after addCubicBezierLine
addCubicBezierLine(p, p0, p1, p2, p3, t, d) ==
    IF noSurface(p0, p1, p2, p3) THEN Ok(p)
    ELSE IF ~FEq(t, Zero) /\ ~FEq(t, One) THEN Panic
    ELSE IF FEq(d, Zero) THEN Ok(Append(p, IF FEq(t, Zero) THEN p0 ELSE p3))
    ELSE lineWithNormal(p, IF FEq(t, Zero) THEN p0 ELSE p3,
                        cubicBezierNormal(p0, p1, p2, p3, t, d))

\* lines 631-634
inflectionQuadratic(ax, ay, bx, by, cx, cy) ==
    solveQuadraticFormula(FSub(FMul(ay, bx), FMul(ax, by)),
                          FSub(FMul(ay, cx), FMul(ax, cy)),
                          FSub(FMul(by, cx), FMul(bx, cy)))

findInflectionPointsCubicBezier(p0, p1, p2, p3) ==
    inflectionQuadratic(
        FAdd(FSub(FAdd(FNeg(p0.X), FMul(FromInt(3), p1.X)), FMul(FromInt(3), p2.X)), p3.X),
        FAdd(FSub(FAdd(FNeg(p0.Y), FMul(FromInt(3), p1.Y)), FMul(FromInt(3), p2.Y)), p3.Y),
        FAdd(FSub(p0.X, FMul(FromInt(2), p1.X)), p2.X),
        FAdd(FSub(p0.Y, FMul(FromInt(2), p1.Y)), p2.Y),
        FAdd(FNeg(p0.X), p1.X),
        FAdd(FNeg(p0.Y), p1.Y))

\* line 673
rangeAround(t, w) == Ok(<<FSub(t, w), FAdd(t, w)>>)

\* lines 668-673
rangeS3(t, flatness, s3) ==
    IF FEq(s3, Zero) THEN Ok(<<Zero, One>>)
    ELSE rangeAround(t, FMul(FCbrt(FDiv(flatness, s3)), FSub(One, t)))

\* lines 662-667
rangeNr(t, flatness, nr, ns) ==
    IF IsZeroPt(nr) THEN Ok(<<Zero, One>>)
    ELSE rangeS3(t, flatness,
                 FDiv(FAbs(FSub(FMul(ns.X, nr.Y), FMul(ns.Y, nr.X))),
                      FHypot(nr.X, nr.Y)))

\* lines 653-660
rangeNr0(t, flatness, r, nr0) ==
    rangeNr(t, flatness, IF IsZeroPt(nr0) THEN Sub(r.p2, r.p0) ELSE nr0,
            Sub(r.p3, r.p0))

\* lines 653-673, on the curve r that starts at t
rangeOn(t, flatness, r) == rangeNr0(t, flatness, r, Sub(r.p1, r.p0))

\* the window <<tmin, tmax>> around the inflection point t
findInflectionPointRange(p0, p1, p2, p3, t, flatness) ==
    IF IsNaN(t) THEN Ok(<<Inf, Inf>>)
    ELSE IF FLt(t, Zero) \/ FGt(t, One) THEN Panic
    ELSE rangeOn(t, flatness,
                 IF ~FEq(t, Zero) THEN splitCubicBezier(p0, p1, p2, p3, t)[2]
                 ELSE Cubic(p0, p1, p2, p3))

\* lines 613-615
smoothT(t) == IF FGe(t, One) THEN [brk |-> TRUE, t |-> t] ELSE [brk |-> FALSE, t |-> t]

\* lines 609-612
smoothS2(d, flatness, s2, r1) ==
    smoothT(FMul(FromInt(2),
                 FSqrt(FDiv(FDiv(FDiv(flatness,
                                      FAbs(FAdd(One,
                                                FDiv(FDiv(FDiv(FMul(FMul(FromInt(2), d), s2),
                                                               FromInt(3)), r1), r1)))),
                                 FromInt(3)),
                            FAbs(s2)))))

\* lines 605-610; t keeps its value when the loop is left at line 606
smoothNom(d, flatness, t, s2nom, denom) ==
    IF FEq(FMul(s2nom, denom), Zero) THEN [brk |-> TRUE, t |-> t]
    ELSE smoothS2(d, flatness, FDiv(s2nom, denom), denom)

\* one pass of the loop of flattenSmoothCubicBezier on the curve c, lines
\* 603-615: the new t, and whether the loop is left by a break
smoothStep(c, d, flatness, t) ==
    smoothNom(d, flatness, t,
              FSub(FMul(FSub(c.p2.X, c.p0.X), FSub(c.p1.Y, c.p0.Y)),
                   FMul(FSub(c.p2.Y, c.p0.Y), FSub(c.p1.X, c.p0.X))),
              FHypot(FSub(c.p1.X, c.p0.X), FSub(c.p1.Y, c.p0.Y)))

---------------------------------------------------------------------------
(* solveQuadraticFormula on integer coefficients                           *)

MaxA == 21
MaxB == 2
MaxC == 23

\* the variables of the flattener, where it is not running
NoCur == [c |-> Cubic(Origin, Origin, Origin, Origin), t |-> Zero,
          lo |-> Zero, hi |-> Zero, after |-> "none"]
NoLoc == [t1 |-> NaN, t2 |-> NaN, t1min |-> NaN, t1max |-> NaN,
          t2min |-> NaN, t2max |-> NaN]
NoPath == /\ path = <<>> /\ par = <<>> /\ cur = NoCur /\ loc = NoLoc

QuadInit ==
    /\ pc = "call"
    /\ args \in [a : -MaxA .. MaxA, b : -MaxB .. MaxB, c : -MaxC .. MaxC]
    /\ ret = <<NaN, NaN>>
    /\ NoPath

QuadSolve ==
    /\ pc = "call"
    /\ ret' = solveQuadraticFormula(FromInt(args.a), FromInt(args.b), FromInt(args.c))
    /\ pc' = "done"
    /\ UNCHANGED <<args, path, par, cur, loc>>

QuadNext == QuadSolve

SpecQuad == QuadInit /\ [][QuadNext]_vars

---------------------------------------------------------------------------
(* C1, C9: what solveQuadraticFormula reports                              *)

Present(r) == {x \in {r[1], r[2]} : ~IsNaN(x)}

\* the number of roots >= 0 of A*y^2 + B*y + C with A # 0 and two distinct
\* real roots, by the signs of their product C/A and their sum -B/A
NonNegRoots(A, B, C) ==
    IF C = 0 THEN (IF A * B < 0 THEN 2 ELSE 1)
    ELSE IF A * C < 0 THEN 1
    ELSE IF A * B < 0 THEN 2 ELSE 0

\* n/d lies in [0,1)
InUnitRat(n, d) == n * d >= 0 /\ AbsInt(n) < AbsInt(d)

\* the number of distinct real roots of a*x^2 + b*x + c in [0,1), for
\* (a,b,c) # (0,0,0), in integer arithmetic
RootsInUnit(a, b, c) ==
    IF a = 0
    THEN (IF b # 0 /\ InUnitRat(-c, b) THEN 1 ELSE 0)
    ELSE IF b * b - 4 * a * c < 0 THEN 0
    ELSE IF b * b - 4 * a * c = 0 THEN (IF InUnitRat(-b, 2 * a) THEN 1 ELSE 0)
    ELSE NonNegRoots(a, b, c) - NonNegRoots(a, 2 * a + b, a + b + c)

\* |a*x^2 + b*x + c| evaluated at a reported value, in float arithmetic
Residual(a, b, c, x) ==
    FAbs(FAdd(FAdd(FMul(FromInt(a), FMul(x, x)), FMul(FromInt(b), x)), FromInt(c)))

\* a reported value satisfies the equation up to the rounding of the
\* arithmetic: the residual is below (|a|+|b|+|c|) / 2^(SigBits-4)
NearRoot(a, b, c, x) ==
    FLe(Residual(a, b, c, x),
        Fin(AbsInt(a) + AbsInt(b) + AbsInt(c), 4 - SigBits))

AllZero == args.a = 0 /\ args.b = 0 /\ args.c = 0

\* C1: for every coefficient triple that is not all zero, solveQuadraticFormula
\* reports exactly the real roots in [0,1): every reported value lies in [0,1)
\* and satisfies the equation (up to rounding), and the values reported are as
\* many as the roots in [0,1), so the boundary root 1 and every root outside
\* [0,1) is reported absent.
C1_ExactRootsInUnit ==
    (pc = "done" /\ ~AllZero) =>
        /\ \A x \in Present(ret) :
              /\ FLe(Zero, x) /\ FLt(x, One)
              /\ NearRoot(args.a, args.b, args.c, x)
        /\ Cardinality(Present(ret)) = RootsInUnit(args.a, args.b, args.c)

\* what solveQuadraticFormula returns for a = b = c = 0
InfiniteSentinel == solveQuadraticFormula(Zero, Zero, Zero)

\* C9: the result for a = b = c = 0 is a sentinel of its own: it differs from
\* the absent result (NaN, NaN), and no coefficient triple whose equation has
\* finitely many roots returns it.
C9_InfiniteSentinelDistinct ==
    pc = "done" =>
        /\ AllZero => ret # <<NaN, NaN>>
        /\ ~AllZero => ret # InfiniteSentinel

---------------------------------------------------------------------------
(* strokeCubicBezier / flattenCubicBezier, one cubic segment               *)

MaxCoord == 2

Coords == 0 .. MaxCoord
GridPts == {Pt(FromInt(x), FromInt(y)) : x \in Coords, y \in Coords}
StartPts == {Pt(FromInt(0), FromInt(0)), Pt(FromInt(1), FromInt(2))}
Offsets == {Zero, One}
Flatnesses == {Fin(1, -3), FromInt(2)}

\* the outcome r of addCubicBezierLine on the path and on the parameters: u
\* is the parameter of the original segment at which an appended line ends
lineOutcome(u, r) ==
    IF ~r.ok THEN [ok |-> FALSE, p |-> path, par |-> par]
    ELSE [ok |-> TRUE, p |-> r.v,
          par |-> IF Len(r.v) > Len(path) THEN Append(par, u) ELSE par]

\* addCubicBezierLine(p, c, t, d)
lineTo(c, t, u) ==
    lineOutcome(u, addCubicBezierLine(path, c.p0, c.p1, c.p2, c.p3, t, args.d))

Whole == Cubic(args.p0, args.p1, args.p2, args.p3)
Split(c, t) == splitCubicBezier(c.p0, c.p1, c.p2, c.p3, t)

\* flattenSmoothCubicBezier(p, c, d, flatness) is entered; it returns to `after`
Flatten(c, lo, hi, after) ==
    [c |-> c, t |-> Zero, lo |-> lo, hi |-> hi, after |-> after]

StrokeInit ==
    /\ pc = "stroke"
    /\ args \in [p0 : StartPts, p1 : GridPts, p2 : GridPts, p3 : GridPts,
                 d : Offsets, flatness : Flatnesses]
    /\ ret = <<NaN, NaN>>
    /\ NoPath

\* a call of addCubicBezierLine with outcome l, then control goes to next
Emit(l, next) ==
    /\ path' = l.p
    /\ par' = l.par
    /\ pc' = IF l.ok THEN next ELSE "panic"
    /\ UNCHANGED cur

\* a call of addCubicBezierLine with outcome l, then flattenSmoothCubicBezier
EmitFlatten(l, f) ==
    /\ path' = l.p
    /\ par' = l.par
    /\ IF l.ok THEN pc' = "flatten" /\ cur' = f
       ELSE pc' = "panic" /\ UNCHANGED cur

\* a call of flattenSmoothCubicBezier
CallFlatten(f) ==
    /\ pc' = "flatten"
    /\ cur' = f
    /\ UNCHANGED <<path, par>>

\* lines 700-707
enterRanges(ts, r1, r2) ==
    IF ~r1.ok \/ ~r2.ok
    THEN /\ pc' = "panic"
         /\ loc' = [loc EXCEPT !.t1 = ts[1], !.t2 = ts[2]]
         /\ UNCHANGED <<path, par, cur>>
    ELSE /\ loc' = [t1 |-> ts[1], t2 |-> ts[2],
                    t1min |-> r1.v[1], t1max |-> r1.v[2],
                    t2min |-> r2.v[1], t2max |-> r2.v[2]]
         /\ IF IsNaN(ts[2]) /\ FLe(r1.v[1], Zero) /\ FLe(One, r1.v[2])
            THEN Emit(lineTo(Whole, One, One), "done")
            ELSE pc' = "L709" /\ UNCHANGED <<path, par, cur>>

\* lines 692-701
enterWith(ts) ==
    IF IsNaN(ts[1]) /\ IsNaN(ts[2])
    THEN /\ CallFlatten(Flatten(Whole, Zero, One, "done"))
         /\ loc' = [loc EXCEPT !.t1 = ts[1], !.t2 = ts[2]]
    ELSE enterRanges(ts,
             findInflectionPointRange(args.p0, args.p1, args.p2, args.p3,
                                      ts[1], args.flatness),
             findInflectionPointRange(args.p0, args.p1, args.p2, args.p3,
                                      ts[2], args.flatness))

\* lines 687-707
StrokeEnter ==
    /\ pc = "stroke"
    /\ enterWith(findInflectionPointsCubicBezier(args.p0, args.p1, args.p2, args.p3))
    /\ UNCHANGED <<args, ret>>

\* lines 709-713
StrokeT1min ==
    /\ pc = "L709"
    /\ IF FLt(Zero, loc.t1min)
       THEN CallFlatten(Flatten(Split(Whole, loc.t1min)[1], Zero, loc.t1min, "L715"))
       ELSE pc' = "L715" /\ UNCHANGED <<path, par, cur>>
    /\ UNCHANGED <<args, ret, loc>>

\* lines 717-723, q the curve from t1max on
t1maxLine(q) ==
    IF FLe(One, loc.t2min)
    THEN EmitFlatten(lineTo(q, Zero, loc.t1max), Flatten(q, loc.t1max, One, "done"))
    ELSE Emit(lineTo(q, Zero, loc.t1max), "L731")

\* lines 715-728
StrokeT1max ==
    /\ pc = "L715"
    /\ IF FLt(Zero, loc.t1max) /\ FLt(loc.t1max, One) /\ FLt(loc.t1max, loc.t2min)
       THEN t1maxLine(Split(Whole, loc.t1max)[2])
       ELSE IF FLe(One, loc.t2min)
       THEN Emit(lineTo(Whole, One, One), "done")
       ELSE pc' = "L731" /\ UNCHANGED <<path, par, cur>>
    /\ UNCHANGED <<args, ret, loc>>

\* lines 738-741, q the curve from t1max on
t2minBetween(q, t2minq) ==
    CallFlatten(Flatten(Split(q, t2minq)[1], loc.t1max,
                        FAdd(loc.t1max, FMul(t2minq, FSub(One, loc.t1max))),
                        "L750"))

\* lines 730-747
StrokeT2min ==
    /\ pc = "L731"
    /\ IF FLt(Zero, loc.t2min)
       THEN IF FLt(loc.t2min, loc.t1max)
            THEN Emit(lineTo(Split(Whole, loc.t1max)[2], Zero, loc.t1max), "L750")
            ELSE IF FLt(Zero, loc.t1max)
            THEN t2minBetween(Split(Whole, loc.t1max)[2],
                              FDiv(FSub(loc.t2min, loc.t1max), FSub(One, loc.t1max)))
            ELSE CallFlatten(Flatten(Split(Whole, loc.t2min)[1], Zero, loc.t2min, "L750"))
       ELSE pc' = "L750" /\ UNCHANGED <<path, par, cur>>
    /\ UNCHANGED <<args, ret, loc>>

\* lines 751-753, q the curve from t2max on
t2maxRest(q) ==
    EmitFlatten(lineTo(q, Zero, loc.t2max), Flatten(q, loc.t2max, One, "done"))

\* lines 749-758
StrokeT2max ==
    /\ pc = "L750"
    /\ IF FLt(loc.t2max, One)
       THEN t2maxRest(Split(Whole, loc.t2max)[2])
       ELSE Emit(lineTo(Whole, One, One), "done")
    /\ UNCHANGED <<args, ret, loc>>

\* lines 616-617: the curve r from t on replaces the curve, u is t as a
\* parameter of the original segment
flattenRest(t, r, u) ==
    EmitFlatten(lineTo(r, Zero, u), [cur EXCEPT !.c = r, !.t = t, !.lo = u])

\* lines 613-617
flattenSplit(s) ==
    /\ ~s.brk
    /\ flattenRest(s.t, Split(cur.c, s.t)[2],
                   FAdd(cur.lo, FMul(s.t, FSub(cur.hi, cur.lo))))

\* flattenSmoothCubicBezier, lines 602-617: one pass of the loop that splits
FlattenStep ==
    /\ pc = "flatten"
    /\ FLt(cur.t, One)
    /\ flattenSplit(smoothStep(cur.c, args.d, args.flatness, cur.t))
    /\ UNCHANGED <<args, ret, loc>>

\* line 619
flattenEnd(l) ==
    /\ path' = l.p
    /\ par' = l.par
    /\ pc' = IF l.ok THEN cur.after ELSE "panic"
    /\ cur' = NoCur

\* flattenSmoothCubicBezier, lines 602-619: the loop ends, the line to the end
FlattenExit ==
    /\ pc = "flatten"
    /\ ~FLt(cur.t, One) \/ smoothStep(cur.c, args.d, args.flatness, cur.t).brk
    /\ flattenEnd(lineTo(cur.c, One, cur.hi))
    /\ UNCHANGED <<args, ret, loc>>

StrokeNext ==
    \/ StrokeEnter
    \/ StrokeT1min
    \/ StrokeT1max
    \/ StrokeT2min
    \/ StrokeT2max
    \/ FlattenStep
    \/ FlattenExit

SpecStroke == StrokeInit /\ [][StrokeNext]_vars

---------------------------------------------------------------------------
(* C2: what findInflectionPointsCubicBezier reports                        *)

\* strokeCubicBezier has called findInflectionPointsCubicBezier
Inflected == pc # "stroke"

InUnit(x) == FLe(Zero, x) /\ FLt(x, One)

\* C2: findInflectionPointsCubicBezier returns 0, 1 or 2 ordered parameters:
\* every present value lies in [0,1), and whenever t2 is present, t1 is
\* present too and t1 < t2.
C2_InflectionsOrdered ==
    Inflected =>
        /\ ~IsNaN(loc.t1) => InUnit(loc.t1)
        /\ ~IsNaN(loc.t2) => InUnit(loc.t2) /\ ~IsNaN(loc.t1) /\ FLt(loc.t1, loc.t2)

---------------------------------------------------------------------------
(* C3: the parameters at which strokeCubicBezier appends points            *)

\* a finite parameter in (0,1]
InHalfOpenUnit(u) == u.k = "fin" /\ FLt(Zero, u) /\ FLe(u, One)

\* the point of the stroke at t = 1: p3 plus the end normal scaled to d
EndPoint ==
    Add(args.p3, cubicBezierNormal(args.p0, args.p1, args.p2, args.p3, One, args.d).v)

\* two coordinates agree up to the rounding of the arithmetic, 2^(6-SigBits)
NearCoord(x, y) == FLe(FAbs(FSub(x, y)), Fin(1, 6 - SigBits))
NearPoint(p, q) == NearCoord(p.X, q.X) /\ NearCoord(p.Y, q.Y)

\* C3: the points strokeCubicBezier appends correspond to parameters of the
\* original segment that are strictly increasing and all lie in (0,1], none
\* of them absent or infinite, and when strokeCubicBezier has returned with
\* points appended the last one is the point at t = 1.
C3_ParametersIncrease ==
    /\ \A i \in 1 .. Len(par) : InHalfOpenUnit(par[i])
    /\ \A i \in 1 .. Len(par) - 1 : FLt(par[i], par[i + 1])
    /\ (pc = "done" /\ Len(path) > 0) =>
           /\ par[Len(par)] = One
           /\ NearPoint(path[Len(path)], EndPoint)

---------------------------------------------------------------------------
(* C4: the deviation of the polyline from the curve                        *)

\* the polyline: the start point, then the points appended
Vertex(i) == IF i = 0 THEN args.p0 ELSE path[i]
Param(i) == IF i = 0 THEN Zero ELSE par[i]

\* the curve is sampled at the parameters k/8
Samples == {Fin(k, -3) : k \in 1 .. 7}

\* the tolerance with its safety margin of a quarter: 1.25 * flatness
Tol == FMul(args.flatness, Fin(5, -2))

\* the distance of a point from the line of a chord, both relative to the
\* start of the chord: v the chord, w the point; a chord of length 0 is a point
chordDistBy(v, w) ==
    IF IsZeroPt(v) THEN Length(w)
    ELSE FDiv(FAbs(FSub(FMul(v.X, w.Y), FMul(v.Y, w.X))), Length(v))

chordDist(A, B, P) == chordDistBy(Sub(B, A), Sub(P, A))

\* the curve point q at parameter s is within the tolerance of the chord
\* that replaces the parameter interval s is in
withinChord(s, q) ==
    IF Len(path) = 0 THEN FLe(Length(Sub(q, args.p0)), Tol)
    ELSE \E i \in 1 .. Len(path) :
            /\ FLe(Param(i - 1), s)
            /\ FLe(s, Param(i))
            /\ FLe(chordDist(Vertex(i - 1), Vertex(i), q), Tol)

\* C4: with d = 0 the polyline (the start point, then the points appended)
\* deviates from the curve by at most the flatness plus a small margin: every
\* sampled curve point is within the tolerance of the chord that replaces
\* the parameter interval it lies in.
C4_WithinFlatness ==
    (pc = "done" /\ FEq(args.d, Zero)) =>
        \A s \in Samples :
            withinChord(s, cubicBezierPos(args.p0, args.p1, args.p2, args.p3, s))

---------------------------------------------------------------------------
(* addCubicBezierLine, one call on an empty path                           *)

Ends == {Zero, One}

LineInit ==
    /\ pc = "line"
    /\ args \in [p0 : GridPts, p1 : GridPts, p2 : GridPts, p3 : GridPts,
                 t : Ends, d : Offsets]
    /\ ret = <<NaN, NaN>>
    /\ NoPath

\* the outcome r of the call
lineReturn(r) ==
    /\ path' = IF r.ok THEN r.v ELSE path
    /\ pc' = IF r.ok THEN "done" ELSE "panic"

LineCall ==
    /\ pc = "line"
    /\ lineReturn(addCubicBezierLine(path, args.p0, args.p1, args.p2, args.p3,
                                     args.t, args.d))
    /\ UNCHANGED <<args, ret, par, cur, loc>>

LineNext == LineCall

SpecLine == LineInit /\ [][LineNext]_vars

\* the segment is fully degenerate: start and end coincide, and so does one
\* control point
Degenerate == args.p0 = args.p3 /\ (args.p0 = args.p1 \/ args.p0 = args.p2)

\* C5: addCubicBezierLine appends no command exactly when the segment is fully
\* degenerate, p0 = p3 and (p0 = p1 or p0 = p2), whatever the coordinates; in
\* particular a line is appended for every segment with p0 # p3.
C5_OnlyDegenerateSuppressed ==
    pc = "done" => (Len(path) = 0 <=> Degenerate)

---------------------------------------------------------------------------
(* gaussLegendre5 and cubicBezierLength in float64 arithmetic               *)

\* a decimal literal n/d of the source, rounded
Dec(n, d) == FDiv(FromInt(n), FromInt(d))

Half(x) == FDiv(x, FromInt(2))

\* line 92
gaussSum(c, Qd1, Qd2, Qd3, Qd4, Qd5) ==
    FMul(c, FAdd(FAdd(FMul(Dec(236927, 1000000), FAdd(Qd1, Qd5)),
                      FMul(Dec(478629, 1000000), FAdd(Qd2, Qd4))),
                 FMul(Dec(568889, 1000000), Qd3)))

\* lines 548-550: the function integrated, the speed along the curve z
speed(z, t) == Length(cubicBezierDeriv(z.p0, z.p1, z.p2, z.p3, t))

\* lines 87-92, f the speed along z
gaussAt(z, c, d) ==
    gaussSum(c,
             speed(z, FAdd(FMul(FNeg(Dec(90618, 100000)), c), d)),
             speed(z, FAdd(FMul(FNeg(Dec(538469, 1000000)), c), d)),
             speed(z, d),
             speed(z, FAdd(FMul(Dec(538469, 1000000), c), d)),
             speed(z, FAdd(FMul(Dec(90618, 100000), c), d)))

\* Gauss-Legendre quadrature from a to b with n = 5, of the speed along z
gaussLegendre5(z, a, b) == gaussAt(z, Half(FSub(b, a)), Half(FAdd(a, b)))

\* line 531: t is absent or an end of the curve
AtEnd(t) == IsNaN(t) \/ FEq(t, Zero) \/ FEq(t, One)

\* lines 538-543, q1 the two halves of the curve split at t1
lengthThree(q1, t2q) ==
    <<q1[1], Split(q1[2], t2q)[1], Split(q1[2], t2q)[2]>>

\* lines 529-544: the pieces the curve is cut into
lengthPieces(c, ts) ==
    IF AtEnd(ts[1]) /\ AtEnd(ts[2]) THEN <<c>>
    ELSE IF AtEnd(ts[2]) THEN Split(c, ts[1])
    ELSE lengthThree(Split(c, ts[1]),
                     FDiv(FSub(ts[2], ts[1]), FSub(One, ts[1])))

\* line 551
pieceLength(z) == gaussLegendre5(z, Zero, One)

\* lines 546-552
RECURSIVE lengthSum(_, _)
lengthSum(beziers, length) ==
    IF beziers = <<>> THEN length
    ELSE lengthSum(Tail(beziers), FAdd(length, pieceLength(Head(beziers))))

LengthInit ==
    /\ pc = "length"
    /\ args \in [p0 : StartPts, p1 : GridPts, p2 : GridPts, p3 : GridPts]
    /\ ret = <<NaN, NaN>>
    /\ NoPath

\* lines 529-544: the inflection points are in loc, the pieces in path
lengthSplit(ts) ==
    /\ loc' = [loc EXCEPT !.t1 = ts[1], !.t2 = ts[2]]
    /\ path' = lengthPieces(Whole, ts)

LengthSplit ==
    /\ pc = "length"
    /\ lengthSplit(findInflectionPointsCubicBezier(args.p0, args.p1, args.p2, args.p3))
    /\ pc' = "L546"
    /\ UNCHANGED <<args, ret, par, cur>>

\* lines 546-553
LengthSum ==
    /\ pc = "L546"
    /\ ret' = <<lengthSum(path, Zero), NaN>>
    /\ pc' = "done"
    /\ UNCHANGED <<args, path, par, cur, loc>>

LengthNext == LengthSplit \/ LengthSum

SpecLength == LengthInit /\ [][LengthNext]_vars

---------------------------------------------------------------------------
(* C6: cubicBezierLength                                                   *)

\* t is an inflection parameter strictly inside (0,1)
Interior(t) == ~IsNaN(t) /\ FLt(Zero, t) /\ FLt(t, One)

InteriorCount ==
    Cardinality({i \in {1, 2} : Interior(<<loc.t1, loc.t2>>[i])})

\* the pieces are consecutive and reach from p0 to p3
Consecutive ==
    /\ path[1].p0 = args.p0
    /\ path[Len(path)].p3 = args.p3
    /\ \A i \in 1 .. Len(path) - 1 : path[i].p3 = path[i + 1].p0

AllCoincide == args.p1 = args.p0 /\ args.p2 = args.p0 /\ args.p3 = args.p0

\* C6: cubicBezierLength cuts the curve at exactly the inflection parameters
\* strictly inside (0,1), into one, two or three consecutive pieces that
\* reach from p0 to p3, and its result is a defined non-negative number,
\* never NaN, and 0 when all four control points coincide.
C6_LengthPartition ==
    /\ pc \in {"L546", "done"} =>
           /\ Len(path) = 1 + InteriorCount
           /\ Consecutive
    /\ pc = "done" =>
           /\ ret[1].k = "fin"
           /\ FLe(Zero, ret[1])
           /\ AllCoincide => ret[1] = Zero

---------------------------------------------------------------------------
(* bisectionMethod                                                         *)

MaxIterations == 100
Tolerance == Dec(1, 1000)

\* the functions bisectionMethod is called with: x, 2x, x*x, 1, -x, 1 - x
Funcs == {"x", "2x", "xx", "one", "negx", "1-x"}

fOf(id, x) ==
    CASE id = "x" -> x
      [] id = "2x" -> FMul(FromInt(2), x)
      [] id = "xx" -> FMul(x, x)
      [] id = "one" -> One
      [] id = "negx" -> FNeg(x)
      [] id = "1-x" -> FSub(One, x)

MaxX == 2
MaxY == 8

FMin(x, y) == IF FLt(y, x) THEN y ELSE x
FMax(x, y) == IF FGt(y, x) THEN y ELSE x

\* y lies between u and v, whichever is larger
Between(y, u, v) == FLe(FMin(u, v), y) /\ FLe(y, FMax(u, v))

\* the brackets and the targets: y a multiple of 1/4 between f(xmin), f(xmax)
BisectArgs ==
    {a \in [f : Funcs, y : {Fin(k, -2) : k \in -MaxY .. MaxY},
            xmin : {FromInt(i) : i \in 0 .. MaxX},
            xmax : {FromInt(i) : i \in 0 .. MaxX}] :
        /\ FLe(a.xmin, a.xmax)
        /\ Between(a.y, fOf(a.f, a.xmin), fOf(a.f, a.xmax))}

BisectInit ==
    /\ pc = "bisect"
    /\ args \in BisectArgs
    /\ ret = <<NaN, NaN>>
    /\ path = <<>>
    /\ par = <<>>
    /\ cur = [xmin |-> NaN, xmax |-> NaN, n |-> 0]
    /\ loc = [toleranceX |-> NaN, toleranceY |-> NaN]

\* lines 114-116
BisectEnter ==
    /\ pc = "bisect"
    /\ cur' = [xmin |-> args.xmin, xmax |-> args.xmax, n |-> 0]
    /\ loc' = [toleranceX |-> FMul(FAbs(FSub(args.xmax, args.xmin)), Tolerance),
               toleranceY |-> FMul(FAbs(FSub(fOf(args.f, args.xmax),
                                             fOf(args.f, args.xmin))), Tolerance)]
    /\ pc' = "L119"
    /\ UNCHANGED <<args, ret, path, par>>

\* line 120
bisectX == Half(FAdd(cur.xmin, cur.xmax))

\* line 125
bisectDy(x) == FSub(fOf(args.f, x), args.y)

\* lines 121-127: the loop returns x
bisectDone(x, dy) ==
    \/ cur.n >= MaxIterations
    \/ FLt(FAbs(dy), loc.toleranceY)
    \/ FLt(Half(FAbs(FSub(cur.xmax, cur.xmin))), loc.toleranceX)

\* lines 128-133
bisectNarrow(x, dy) ==
    cur' = IF FGt(dy, Zero)
           THEN [cur EXCEPT !.xmax = x, !.n = @ + 1]
           ELSE [cur EXCEPT !.xmin = x, !.n = @ + 1]

\* lines 119-133: one pass of the loop that goes on
BisectStep ==
    /\ pc = "L119"
    /\ ~bisectDone(bisectX, bisectDy(bisectX))
    /\ bisectNarrow(bisectX, bisectDy(bisectX))
    /\ UNCHANGED <<pc, args, ret, path, par, loc>>

\* lines 119-127: the pass of the loop that returns
BisectReturn ==
    /\ pc = "L119"
    /\ bisectDone(bisectX, bisectDy(bisectX))
    /\ ret' = <<bisectX, NaN>>
    /\ pc' = "done"
    /\ UNCHANGED <<args, path, par, cur, loc>>

BisectNext == BisectEnter \/ BisectStep \/ BisectReturn

SpecBisect == BisectInit /\ [][BisectNext]_vars

---------------------------------------------------------------------------
(* C7: what bisectionMethod returns                                        *)

\* 0.1% of the bracket width and of the range of f over the bracket
WidthTol == FMul(FSub(args.xmax, args.xmin), Tolerance)
RangeTol == FMul(FAbs(FSub(fOf(args.f, args.xmax), fOf(args.f, args.xmin))), Tolerance)

\* some x* with f(x*) = y lies in [lo, hi]: f is continuous and monotone, so
\* this is y between f(lo) and f(hi)
SolutionIn(lo, hi) == Between(args.y, fOf(args.f, lo), fOf(args.f, hi))

\* x is within 0.1% of the bracket width of a solution in the bracket
NearSolution(x) ==
    SolutionIn(FMax(args.xmin, FSub(x, WidthTol)), FMin(args.xmax, FAdd(x, WidthTol)))

\* C7: for f monotone on the bracket (non-decreasing or non-increasing) and
\* y between f(xmin) and f(xmax), bisectionMethod returns after at most 100
\* iterations an x in [xmin, xmax] with |f(x) - y| below 0.1% of
\* |f(xmax) - f(xmin)|, or within 0.1% of the bracket width of an x* with
\* f(x*) = y.
C7_BisectionConverges ==
    /\ pc = "L119" => cur.n <= MaxIterations
    /\ pc = "done" =>
           /\ FLe(args.xmin, ret[1]) /\ FLe(ret[1], args.xmax)
           /\ \/ FLt(FAbs(FSub(fOf(args.f, ret[1]), args.y)), RangeTol)
              \/ NearSolution(ret[1])

---------------------------------------------------------------------------
(* gaussLegendre5 in exact arithmetic                                      *)
(* The reduced significand cannot keep 2.000001 apart from 2, which        *)
(* float64 does; here the rule is computed on exact fractions <<n, d>>,    *)
(* d > 0, in lowest terms: what float64 computes up to its last bits.      *)

RECURSIVE Gcd(_, _)
Gcd(a, b) == IF b = 0 THEN a ELSE Gcd(b, a % b)

QReduce(n, d, g) == <<n \div g, d \div g>>
Q(n, d) == QReduce(n * SgnInt(d), AbsInt(d), Gcd(AbsInt(n), AbsInt(d)))
QInt(n) == <<n, 1>>

QAddBy(x, y, g) == Q(x[1] * (y[2] \div g) + y[1] * (x[2] \div g), (x[2] \div g) * y[2])
QAdd(x, y) == QAddBy(x, y, Gcd(x[2], y[2]))
QNeg(x) == <<-x[1], x[2]>>
QSub(x, y) == QAdd(x, QNeg(y))

\* the factors are reduced crosswise before they are multiplied
QMulBy(x, y, g1, g2) ==
    Q((x[1] \div g1) * (y[1] \div g2), (x[2] \div g2) * (y[2] \div g1))
QMul(x, y) ==
    IF x[1] = 0 \/ y[1] = 0 THEN QInt(0)
    ELSE QMulBy(x, y, Gcd(AbsInt(x[1]), y[2]), Gcd(AbsInt(y[1]), x[2]))
QHalf(x) == QMul(x, Q(1, 2))

\* line 92 with the symmetric pair Qd1, Qd5 left out of the sum
gaussSumNoOuter(c, Qd1, Qd2, Qd3, Qd4, Qd5) ==
    QMul(c, QAdd(QMul(Q(478629, 1000000), QAdd(Qd2, Qd4)),
                 QMul(Q(568889, 1000000), Qd3)))

\* line 92
gaussSumQ(c, Qd1, Qd2, Qd3, Qd4, Qd5) ==
    QMul(c, QAdd(QAdd(QMul(Q(236927, 1000000), QAdd(Qd1, Qd5)),
                      QMul(Q(478629, 1000000), QAdd(Qd2, Qd4))),
                 QMul(Q(568889, 1000000), Qd3)))

\* the integrands: the constant k and the linear function k*x
integrand(f, x) == IF f.kind = "const" THEN QInt(f.k) ELSE QMul(QInt(f.k), x)

\* lines 87-92
gaussAtQ(f, c, d) ==
    gaussSumQ(c,
              integrand(f, QAdd(QMul(QNeg(Q(90618, 100000)), c), d)),
              integrand(f, QAdd(QMul(QNeg(Q(538469, 1000000)), c), d)),
              integrand(f, d),
              integrand(f, QAdd(QMul(Q(538469, 1000000), c), d)),
              integrand(f, QAdd(QMul(Q(90618, 100000), c), d)))

\* lines 84-93
gaussLegendre5Q(f, a, b) == gaussAtQ(f, QHalf(QSub(b, a)), QHalf(QAdd(a, b)))

MaxK == 3
MaxEnd == 2

GaussInit ==
    /\ pc = "gauss"
    /\ args \in [f : {"const", "lin"}, k : -MaxK .. MaxK,
                 a : 0 .. MaxEnd, b : 0 .. MaxEnd]
    /\ ret = <<NaN, NaN>>
    /\ NoPath

GaussCall ==
    /\ pc = "gauss"
    /\ ret' = gaussLegendre5Q([kind |-> args.f, k |-> args.k],
                               QInt(args.a), QInt(args.b))
    /\ pc' = "done"
    /\ UNCHANGED <<args, path, par, cur, loc>>

GaussNext == GaussCall

SpecGauss == GaussInit /\ [][GaussNext]_vars

---------------------------------------------------------------------------
(* C8: gaussLegendre5 on constant and linear functions                     *)

\* the integral of k over [a,b] is k*(b-a), of k*x it is k*(b^2-a^2)/2
TrueIntegral ==
    IF args.f = "const" THEN Q(args.k * (args.b - args.a), 1)
    ELSE Q(args.k * (args.b * args.b - args.a * args.a), 2)

\* C8 as stated: gaussLegendre5 integrates constant and linear functions
\* exactly, the result equals the true integral (the weights sum to 2).
C8_ExactOnLinear == pc = "done" => ret = TrueIntegral

\* C8: the weights of gaussLegendre5 sum to 2.000001, so for constant and
\* linear functions its result is the true integral times 1.0000005: a
\* relative error of 5 * 10^-7, and exact only where the integral is 0.
C8_LinearUpToWeights ==
    pc = "done" => ret = QMul(Q(2000001, 2000000), TrueIntegral)

\* f(x) = x over [0,2] has been integrated: 2.000001
C8_LinearOverZeroTwo ==
    /\ pc = "done"
    /\ args = [f |-> "lin", k |-> 1, a |-> 0, b |-> 2]
    /\ ret = Q(2000001, 1000000)

---------------------------------------------------------------------------
(* C10: no panic in strokeCubicBezier                                      *)

\* t is a parameter findInflectionPointRange accepts: absent, or in [0,1]
RangeAccepts(t) == IsNaN(t) \/ (FLe(Zero, t) /\ FLe(t, One))

\* C10: no panic is reachable from strokeCubicBezier: addCubicBezierLine and
\* cubicBezierNormal are only called with t = 0 or t = 1, which they accept,
\* and findInflectionPointRange only with t absent or in [0,1].
C10_NoPanic ==
    /\ pc # "panic"
    /\ Inflected => RangeAccepts(loc.t1) /\ RangeAccepts(loc.t2)

\* strokeCubicBezier has returned for a curve with two inflection points,
\* after both windows were computed and lines were appended with a normal
C10_StrokedTwoInflections ==
    /\ pc = "done"
    /\ ~IsNaN(loc.t1)
    /\ ~IsNaN(loc.t2)
    /\ FEq(args.d, One)
    /\ Len(path) >= 3

---------------------------------------------------------------------------
(* Rect.Add                                                                *)

MaxRect == 2

Rect(x, y, w, h) == [X |-> x, Y |-> y, W |-> w, H |-> h]

\* the rectangles with corner and extents on the grid, the extents >= 0
Rects ==
    {Rect(FromInt(x), FromInt(y), FromInt(w), FromInt(h)) :
        x \in 0 .. MaxRect, y \in 0 .. MaxRect, w \in 0 .. MaxRect, h \in 0 .. MaxRect}

\* lines 18-22, the corners x0, y0, x1, y1
rectSpan(x0, y0, x1, y1) == Rect(x0, y0, FSub(x1, x0), FSub(y1, y0))

\* r.Add(q)
RectAdd(r, q) ==
    IF FEq(q.W, Zero) \/ FEq(q.H, Zero) THEN r
    ELSE IF FEq(r.W, Zero) \/ FEq(r.H, Zero) THEN q
    ELSE rectSpan(FMin(r.X, q.X), FMin(r.Y, q.Y),
                  FMax(FAdd(r.X, r.W), FAdd(q.X, q.W)),
                  FMax(FAdd(r.Y, r.H), FAdd(q.Y, q.H)))

RectInit ==
    /\ pc = "add"
    /\ args \in [r : Rects, q : Rects]
    /\ ret = <<NaN, NaN>>
    /\ NoPath

RectCall ==
    /\ pc = "add"
    /\ ret' = RectAdd(args.r, args.q)
    /\ pc' = "done"
    /\ UNCHANGED <<args, path, par, cur, loc>>

RectNext == RectCall

SpecRect == RectInit /\ [][RectNext]_vars

\* every point of the rectangle b lies inside the rectangle a
Encompasses(a, b) ==
    /\ FLe(a.X, b.X)
    /\ FLe(a.Y, b.Y)
    /\ FLe(FAdd(b.X, b.W), FAdd(a.X, a.W))
    /\ FLe(FAdd(b.Y, b.H), FAdd(a.Y, a.H))

\* C11: for rectangles r and q with non-negative width and height, r.Add(q)
\* encompasses both r and q, also when one of them has width or height zero.
C11_AddEncompassesBoth ==
    pc = "done" => Encompasses(ret, args.r) /\ Encompasses(ret, args.q)

---------------------------------------------------------------------------
(* flattenSmoothCubicBezier, called on a whole segment                     *)

\* the passes of the loop are counted in loc.steps, up to MaxSteps
MaxSteps == 6

SmoothFlatnesses == {Zero, Fin(1, -3)}

SmoothInit ==
    /\ pc = "flatten"
    /\ args \in [p0 : StartPts, p1 : GridPts, p2 : GridPts, p3 : GridPts,
                 d : Offsets, flatness : SmoothFlatnesses]
    /\ ret = <<NaN, NaN>>
    /\ path = <<>>
    /\ par = <<>>
    /\ cur = Flatten(Cubic(args.p0, args.p1, args.p2, args.p3), Zero, One, "done")
    /\ loc = [steps |-> 0]

\* lines 602-617: one pass of the loop that splits
SmoothStep ==
    /\ pc = "flatten"
    /\ FLt(cur.t, One)
    /\ loc.steps < MaxSteps
    /\ flattenSplit(smoothStep(cur.c, args.d, args.flatness, cur.t))
    /\ loc' = [steps |-> loc.steps + 1]
    /\ UNCHANGED <<args, ret>>

SmoothNext == SmoothStep \/ FlattenExit

SpecSmooth == SmoothInit /\ [][SmoothNext]_vars

\* C12: for a flatness >= 0, every pass of the loop of
\* flattenSmoothCubicBezier that does not leave the loop splits off a
\* strictly positive fraction t of the remaining curve, never 0 and never
\* NaN, which is what lets the loop end after a bounded number of passes.
C12_FlattenTerminates ==
    (pc = "flatten" /\ loc.steps > 0) =>
        /\ cur.t.k = "fin"
        /\ FLt(Zero, cur.t)

---------------------------------------------------------------------------
(* invPolynomialApprox3 and invPolynomialApprox4, with gaussLegendre5 and  *)
(* the speed along a curve as the function integrated                      *)

MaxDomain == 2
MaxLast == 4

\* the curves (0,0), (1,0), (2,0), (k,0): their speed 3 + 3(k-3)t^2 is positive
InvCurves ==
    {Cubic(Pt(Zero, Zero), Pt(One, Zero), Pt(FromInt(2), Zero), Pt(FromInt(k), Zero)) :
        k \in 3 .. MaxLast}

\* lines 170-172, 201-203
invF(x) ==
    gaussLegendre5(args.z, args.xmin,
                   FAdd(args.xmin, FMul(FSub(args.xmax, args.xmin), x)))

InvInit ==
    /\ pc = "inv"
    /\ args \in {a \in [z : InvCurves, order : {3, 4},
                        xmin : {FromInt(i) : i \in 0 .. MaxDomain},
                        xmax : {FromInt(i) : i \in 0 .. MaxDomain}] :
                    FLt(a.xmin, a.xmax)}
    /\ ret = <<>>
    /\ path = <<>>
    /\ par = <<>>
    /\ cur = [xmin |-> NaN, xmax |-> NaN, n |-> 0]
    /\ loc = [toleranceX |-> NaN, toleranceY |-> NaN, y |-> NaN, total |-> NaN]

\* lines 173, 204: the total y3 or y4; the xs found are collected in par
InvEnter ==
    /\ pc = "inv"
    /\ loc' = [loc EXCEPT !.total = invF(One)]
    /\ pc' = "call"
    /\ UNCHANGED <<args, ret, path, par, cur>>

\* lines 174-175, 205-207 with lines 114-116: bisectionMethod is entered for
\* the next fraction of the total
InvBisect ==
    /\ pc = "call"
    /\ Len(par) < args.order - 1
    /\ cur' = [xmin |-> args.xmin, xmax |-> args.xmax, n |-> 0]
    /\ loc' = [loc EXCEPT
                 !.toleranceX = FMul(FAbs(FSub(args.xmax, args.xmin)), Tolerance),
                 !.toleranceY = FMul(FAbs(FSub(invF(args.xmax), invF(args.xmin))),
                                     Tolerance),
                 !.y = FMul(Dec(Len(par) + 1, args.order), loc.total)]
    /\ pc' = "L119"
    /\ UNCHANGED <<args, ret, path, par>>

\* lines 119-133: one pass of the loop that goes on
InvStep ==
    /\ pc = "L119"
    /\ ~bisectDone(bisectX, FSub(invF(bisectX), loc.y))
    /\ bisectNarrow(bisectX, FSub(invF(bisectX), loc.y))
    /\ UNCHANGED <<pc, args, ret, path, par, loc>>

\* lines 119-127: the pass of the loop that returns
InvReturn ==
    /\ pc = "L119"
    /\ bisectDone(bisectX, FSub(invF(bisectX), loc.y))
    /\ par' = Append(par, bisectX)
    /\ pc' = "call"
    /\ UNCHANGED <<args, ret, path, cur, loc>>

\* lead * y * ... * y with n factors y, multiplied from the left
RECURSIVE invPow(_, _, _)
invPow(lead, y, n) == IF n = 0 THEN lead ELSE FMul(invPow(lead, y, n - 1), y)

\* a sum of floats, added from the left
RECURSIVE invSum(_)
invSum(s) ==
    IF Len(s) = 1 THEN s[1]
    ELSE FAdd(invSum(SubSeq(s, 1, Len(s) - 1)), s[Len(s)])

\* lines 191-193, 225-228: the numerators' factors and the denominators' first
invRows(order) ==
    IF order = 3
    THEN [lead |-> 2,
          rows |-> <<<<27, -27, 9>>, <<-45, 36, -9>>, <<18, -9, 2>>>>]
    ELSE [lead |-> 3,
          rows |-> <<<<-128, 192, -128, 32>>, <<288, -384, 224, -48>>,
                     <<-208, 228, -112, 22>>, <<48, -36, 16, -3>>>>]

\* lines 191-193, 225-228: a, b, c (and d)
invCoefs(m, xs, total) ==
    [i \in 1 .. Len(m.rows) |->
        FDiv(invSum([j \in 1 .. Len(xs) |-> FMul(FromInt(m.rows[i][j]), xs[j])]),
             invPow(FromInt(m.lead), total, Len(m.rows) + 1 - i))]

\* lines 194-197, 229-232: the function returned
invX(co, y) ==
    FAdd(args.xmin,
         FMul(FSub(args.xmax, args.xmin),
              invSum([i \in 1 .. Len(co) |-> invPow(co[i], y, Len(co) + 1 - i)])))

\* lines 176-197, 208-232: the fit; ret is the function returned, at the
\* lengths 0, total/order, ..., total
InvFit ==
    /\ pc = "call"
    /\ Len(par) = args.order - 1
    /\ ret' = [k \in 1 .. args.order + 1 |->
                 invX(invCoefs(invRows(args.order), Append(par, One), loc.total),
                      IF k = args.order + 1 THEN loc.total
                      ELSE FMul(Dec(k - 1, args.order), loc.total))]
    /\ pc' = "done"
    /\ UNCHANGED <<args, path, par, cur, loc>>

InvNext == InvEnter \/ InvBisect \/ InvStep \/ InvReturn \/ InvFit

SpecInv == InvInit /\ [][InvNext]_vars

\* the forward integral from xmin to x
Forward(x) == gaussLegendre5(args.z, args.xmin, x)

InvTol == Fin(1, -4)

\* the returned function, at the k-th sampled length, is in the domain and is
\* the parameter at which the forward integral equals that length
SampleInverts(k) ==
    /\ FLe(args.xmin, ret[k + 1])
    /\ FLe(ret[k + 1], args.xmax)
    /\ FLe(FAbs(FSub(Forward(ret[k + 1]), FMul(Dec(k, args.order), loc.total))),
           FMul(InvTol, loc.total))

\* C13: for every domain xmin < xmax, the function x(y) returned by
\* invPolynomialApprox3 or invPolynomialApprox4 has x(0) = xmin and
\* x(L) = xmax for the returned total L, and at every sampled length k L/order
\* its value lies in [xmin, xmax] and is the parameter at which the forward
\* integral from xmin equals that length.
C13_InverseOnDomain ==
    pc = "done" =>
        /\ FEq(ret[1], args.xmin)
        /\ FLe(FAbs(FSub(ret[args.order + 1], args.xmax)), InvTol)
        /\ \A k \in 1 .. args.order - 1 : SampleInverts(k)

---------------------------------------------------------------------------
(* math.Pi, math.Sincos, math.Acos and the conversion to int, in floats    *)

Pi == Fin(205887, -16)
TwoPi == FMul(FromInt(2), Pi)
HalfPi == Half(Pi)

\* the largest integer <= x, for a finite x
FloorInt(x) ==
    IF x.e >= 0 THEN x.m * (2 ^ x.e)
    ELSE IF x.e < -30 THEN (IF x.m < 0 THEN -1 ELSE 0)
    ELSE x.m \div (2 ^ (-x.e))

\* int(x) of Go for a finite x: the fraction is dropped
TruncInt(x) == SgnInt(x.m) * FloorInt(FAbs(x))

\* the integer nearest to x
NearInt(x) == FloorInt(FAdd(x, Half(One)))

\* sin and cos on [-Pi/4, Pi/4], x2 the square of x
SinSmall(x, x2) ==
    FMul(x, FSub(One, FMul(FDiv(x2, FromInt(6)),
                 FSub(One, FMul(FDiv(x2, FromInt(20)),
                      FSub(One, FDiv(x2, FromInt(42))))))))

CosSmall(x2) ==
    FSub(One, FMul(Half(x2),
         FSub(One, FMul(FDiv(x2, FromInt(12)),
              FSub(One, FDiv(x2, FromInt(30)))))))

\* sin and cos of s + q Pi/2
SincosQuadrant(q, s, c) ==
    CASE q % 4 = 0 -> <<s, c>>
      [] q % 4 = 1 -> <<c, FNeg(s)>>
      [] q % 4 = 2 -> <<FNeg(s), FNeg(c)>>
      [] q % 4 = 3 -> <<FNeg(c), s>>

SincosReduced(q, x) == SincosQuadrant(q, SinSmall(x, FMul(x, x)), CosSmall(FMul(x, x)))

SincosFin(x, q) == SincosReduced(q, FSub(x, FMul(FromInt(q), HalfPi)))

\* math.Sincos: <<sin x, cos x>>
Sincos(x) ==
    IF x.k # "fin" THEN <<NaN, NaN>> ELSE SincosFin(x, NearInt(FDiv(x, HalfPi)))

\* asin on [-1/2, 1/2], x2 the square of x
AsinSmall(x, x2) ==
    FMul(x, FAdd(One, FMul(x2,
         FAdd(Dec(1, 6), FMul(x2,
         FAdd(Dec(3, 40), FMul(x2,
         FAdd(Dec(15, 336), FMul(x2, Dec(35, 1152))))))))))

AsinHalf(x) == AsinSmall(x, FMul(x, x))

\* math.Acos
Acos(x) ==
    IF IsNaN(x) \/ FLt(One, FAbs(x)) THEN NaN
    ELSE IF FLt(Half(One), x)
    THEN FMul(FromInt(2), AsinHalf(FSqrt(Half(FSub(One, x)))))
    ELSE IF FLt(x, FNeg(Half(One)))
    THEN FSub(Pi, FMul(FromInt(2), AsinHalf(FSqrt(Half(FAdd(One, x))))))
    ELSE FSub(HalfPi, AsinHalf(x))

---------------------------------------------------------------------------
(* ellipsePos, ellipseToCenter and flattenEllipse                          *)

\* the angle theta in [-Pi, Pi], brought into [0, 2 Pi)
angleNorm(theta) == IF FLt(theta, Zero) THEN FAdd(theta, TwoPi) ELSE theta

\* lines 240-241, st and sp the sine and cosine of theta and of phi
ellipseAt(rx, ry, cx, cy, st, sp) ==
    Pt(FSub(FAdd(cx, FMul(FMul(rx, st[2]), sp[2])), FMul(FMul(ry, st[1]), sp[1])),
       FAdd(FAdd(cy, FMul(FMul(rx, st[2]), sp[1])), FMul(FMul(ry, st[1]), sp[2])))

ellipsePos(rx, ry, phi, cx, cy, theta) ==
    ellipseAt(rx, ry, cx, cy, Sincos(theta), Sincos(phi))

\* line 304
raddiCheck(rx, ry, x1p, y1p) ==
    FAdd(FDiv(FDiv(FMul(x1p, x1p), rx), rx), FDiv(FDiv(FMul(y1p, y1p), ry), ry))

\* lines 310-317
centerCoef(q, sq) ==
    IF q.large = q.sweep
    THEN FNeg(FSqrt(IF FLt(sq, Zero) THEN Zero ELSE sq))
    ELSE FSqrt(IF FLt(sq, Zero) THEN Zero ELSE sq)

\* line 310
centerSq(rx, ry, x1p, y1p) ==
    FDiv(FSub(FSub(FMul(FMul(FMul(rx, rx), ry), ry),
                   FMul(FMul(FMul(rx, rx), y1p), y1p)),
              FMul(FMul(FMul(ry, ry), x1p), x1p)),
         FAdd(FMul(FMul(FMul(rx, rx), y1p), y1p),
              FMul(FMul(FMul(ry, ry), x1p), x1p)))

\* lines 329-333
centerTheta(ux, uy) ==
    angleNorm(IF FLt(uy, Zero)
              THEN FNeg(Acos(FDiv(ux, FSqrt(FAdd(FMul(ux, ux), FMul(uy, uy))))))
              ELSE Acos(FDiv(ux, FSqrt(FAdd(FMul(ux, ux), FMul(uy, uy))))))

\* lines 338-345, delta the angle of line 337
centerSigned(sweep, delta) ==
    IF ~sweep /\ FGt(delta, Zero) THEN FSub(delta, TwoPi)
    ELSE IF sweep /\ FLt(delta, Zero) THEN FAdd(delta, TwoPi)
    ELSE delta

\* lines 335-345
centerDelta(ux, uy, vx, vy, sweep) ==
    centerSigned(sweep,
        IF FLt(FSub(FMul(ux, vy), FMul(uy, vx)), Zero)
        THEN FNeg(Acos(FMin(One, FMax(FNeg(One),
                 FDiv(FAdd(FMul(ux, vx), FMul(uy, vy)),
                      FSqrt(FMul(FAdd(FMul(ux, ux), FMul(uy, uy)),
                                 FAdd(FMul(vx, vx), FMul(vy, vy)))))))))
        ELSE Acos(FMin(One, FMax(FNeg(One),
                 FDiv(FAdd(FMul(ux, vx), FMul(uy, vy)),
                      FSqrt(FMul(FAdd(FMul(ux, ux), FMul(uy, uy)),
                                 FAdd(FMul(vx, vx), FMul(vy, vy)))))))))

\* lines 320-346
centerAngles(q, sp, x1p, y1p, rx, ry, cxp, cyp) ==
    <<FAdd(FSub(FMul(sp[2], cxp), FMul(sp[1], cyp)), Half(FAdd(q.x1, q.x2))),
      FAdd(FAdd(FMul(sp[1], cxp), FMul(sp[2], cyp)), Half(FAdd(q.y1, q.y2))),
      centerTheta(FDiv(FSub(x1p, cxp), rx), FDiv(FSub(y1p, cyp), ry)),
      FAdd(centerTheta(FDiv(FSub(x1p, cxp), rx), FDiv(FSub(y1p, cyp), ry)),
           centerDelta(FDiv(FSub(x1p, cxp), rx), FDiv(FSub(y1p, cyp), ry),
                       FDiv(FNeg(FAdd(x1p, cxp)), rx), FDiv(FNeg(FAdd(y1p, cyp)), ry),
                       q.sweep))>>

\* lines 318-319
centerPrimed(q, sp, x1p, y1p, rx, ry, coef) ==
    centerAngles(q, sp, x1p, y1p, rx, ry,
                 FDiv(FMul(FMul(coef, rx), y1p), ry),
                 FDiv(FMul(FMul(coef, FNeg(ry)), x1p), rx))

\* lines 310-317
centerScaled(q, sp, x1p, y1p, rx, ry) ==
    centerPrimed(q, sp, x1p, y1p, rx, ry,
                 centerCoef(q, centerSq(rx, ry, x1p, y1p)))

\* lines 304-308
centerRadii(q, sp, x1p, y1p, check) ==
    IF FGt(check, One)
    THEN centerScaled(q, sp, x1p, y1p,
                      FMul(q.rx, FSqrt(check)), FMul(q.ry, FSqrt(check)))
    ELSE centerScaled(q, sp, x1p, y1p, q.rx, q.ry)

\* lines 299-304
centerOf(q, sp, x1p, y1p) ==
    centerRadii(q, sp, x1p, y1p, raddiCheck(q.rx, q.ry, x1p, y1p))

\* lines 300-301
centerHalves(q, sp) ==
    centerOf(q, sp,
             FAdd(Half(FMul(sp[2], FSub(q.x1, q.x2))),
                  Half(FMul(sp[1], FSub(q.y1, q.y2)))),
             FAdd(Half(FMul(FNeg(sp[1]), FSub(q.x1, q.x2))),
                  Half(FMul(sp[2], FSub(q.y1, q.y2)))))

\* <<cx, cy, theta1, theta2>>
ellipseToCenter(x1, y1, rx, ry, phi, large, sweep, x2, y2) ==
    IF FEq(x1, x2) /\ FEq(y1, y2) THEN <<x1, y1, Zero, Zero>>
    ELSE centerHalves([x1 |-> x1, y1 |-> y1, x2 |-> x2, y2 |-> y2, rx |-> rx,
                       ry |-> ry, large |-> large, sweep |-> sweep],
                      Sincos(phi))

MaxRadius == 16
Radii == {One, FromInt(MaxRadius)}

\* line 396
nFull == 64

\* line 397: no pass of the loop for a span that is not a number
ellipseCount(span) ==
    IF span.k # "fin" THEN 0
    ELSE TruncInt(FMul(FDiv(Half(FAbs(span)), Pi), FromInt(nFull)))

EllipseInit ==
    /\ pc = "ellipse"
    /\ args \in {a \in [start : {Origin}, end : GridPts, rx : Radii, ry : Radii,
                        phi : {Zero}, largeArc : BOOLEAN, sweep : BOOLEAN] :
                    a.start # a.end}
    /\ ret = <<>>
    /\ path = <<>>
    /\ par = <<>>
    /\ cur = [c |-> <<NaN, NaN, NaN, NaN>>, n |-> 0, i |-> 0]
    /\ loc = NoLoc

\* lines 392-397: c is <<cx, cy, theta1, theta2>>
ellipseEnter(c) ==
    cur' = [c |-> c, n |-> ellipseCount(FSub(c[4], c[3])), i |-> 0]

EllipseEnter ==
    /\ pc = "ellipse"
    /\ ellipseEnter(ellipseToCenter(args.start.X, args.start.Y, args.rx, args.ry,
                                    args.phi, args.largeArc, args.sweep,
                                    args.end.X, args.end.Y))
    /\ pc' = "L398"
    /\ UNCHANGED <<args, ret, path, par, loc>>

\* lines 398-402: one pass of the loop
EllipseStep ==
    /\ pc = "L398"
    /\ cur.i < cur.n
    /\ path' = Append(path,
                  ellipsePos(args.rx, args.ry, args.phi, cur.c[1], cur.c[2],
                             FAdd(cur.c[3],
                                  FMul(FSub(cur.c[4], cur.c[3]),
                                       FDiv(FromInt(cur.i + 1), FromInt(cur.n))))))
    /\ cur' = [cur EXCEPT !.i = @ + 1]
    /\ UNCHANGED <<pc, args, ret, par, loc>>

\* line 403
EllipseReturn ==
    /\ pc = "L398"
    /\ cur.i >= cur.n
    /\ pc' = "done"
    /\ UNCHANGED <<args, ret, path, par, cur, loc>>

EllipseNext == EllipseEnter \/ EllipseStep \/ EllipseReturn

SpecEllipse == EllipseInit /\ [][EllipseNext]_vars

\* the point p is the end point of the arc, up to the rounding of the angles
ArcEndTol == Fin(1, -3)
AtArcEnd(p) ==
    /\ FLe(FAbs(FSub(p.X, args.end.X)), ArcEndTol)
    /\ FLe(FAbs(FSub(p.Y, args.end.Y)), ArcEndTol)

\* C14: for an arc with distinct start and end points, flattenEllipse appends
\* floor(64 |theta2 - theta1| / (2 Pi)) line segments, this number is at least
\* 1, and the last point appended is the end point of the arc, the position
\* on the ellipse at theta2.
C14_EllipseReachesEnd ==
    pc = "done" =>
        /\ Len(path) = cur.n
        /\ Len(path) >= 1
        /\ AtArcEnd(path[Len(path)])

=============================================================================
